---- MODULE Spec2Model ----
(***************************************************************************)
(* zyx-sendgrid: the SendGrid adapter in its two variants.                 *)
(*   variant A  src/unnamed/part_000  (sendgridEmailer.js: verifyConfig,   *)
(*              connect, disconnect, createTransport, send)                *)
(*   variant B  src/index.js          (initialize, send,                   *)
(*              _convertToSendGridFormat, CreateSendGridEmailer)           *)
(* Both share the process-wide vendor client sgMail.                       *)
(***************************************************************************)
EXTENDS Integers, Sequences, FiniteSets, TLC

(***************************************************************************)
(* JavaScript values.  Every value is a record tagged by t, so that values *)
(* of different JavaScript types can be compared.                          *)
(***************************************************************************)
Undefined == [t |-> "undefined"]
Null == [t |-> "null"]
Str(s) == [t |-> "string", v |-> s]
Arr(s) == [t |-> "array", v |-> s]

IsNullish(x) == x.t \in {"undefined", "null"}

\* JavaScript truthiness of the values the adapter tests with !x and ||.
Truthy(x) ==
  CASE x.t = "undefined" -> FALSE
    [] x.t = "null" -> FALSE
    [] x.t = "string" -> x.v # ""
    [] OTHER -> TRUE

\* a || b
Or(a, b) == IF Truthy(a) THEN a ELSE b

\* x?.f : undefined for a nullish x and for a property x does not have.
OptGet(x, f) ==
  IF IsNullish(x) THEN Undefined
  ELSE IF f \in DOMAIN x THEN x[f] ELSE Undefined

\* String(x), as the + operator applies it to its right operand.
ToStr(x) ==
  CASE x.t = "string" -> x.v
    [] x.t = "undefined" -> "undefined"
    [] x.t = "null" -> "null"
    [] OTHER -> "[object Object]"

\* Array.prototype.join: nullish elements print as the empty string.
RECURSIVE Join(_, _)
Join(seq, sep) ==
  IF seq = <<>> THEN ""
  ELSE IF Len(seq) = 1 THEN (IF IsNullish(seq[1]) THEN "" ELSE ToStr(seq[1]))
  ELSE (IF IsNullish(seq[1]) THEN "" ELSE ToStr(seq[1])) \o sep \o Join(Tail(seq), sep)

\* Array.prototype.map
Map(seq, F(_)) == [k \in 1..Len(seq) |-> F(seq[k])]

\* new Error(msg)
NewError(msg) == [t |-> "Error", message |-> Str(msg)]
\* The TypeError of reading a property of undefined or null.
TypeError == [t |-> "TypeError", message |-> Str("Cannot read properties of undefined")]

(***************************************************************************)
(* Configurations and keys.                                                *)
(***************************************************************************)
MinKeyLen == 10
MaxKeyLen == 255

RECURSIVE Repeat(_, _)
Repeat(c, n) ==
  IF n = 0 THEN ""
  ELSE IF n % 2 = 0 THEN LET half == Repeat(c, n \div 2) IN half \o half
  ELSE c \o Repeat(c, n - 1)

\* The key lengths around the two limits of the schema.
KeyLens == {0, MinKeyLen - 1, MinKeyLen, MaxKeyLen, MaxKeyLen + 1}
KeyStrings == {Repeat("a", n) : n \in KeyLens} \cup {Repeat("b", MinKeyLen)}
\* The value of config.sendgrid_api_key: absent, or a string.
KeyValues == {Undefined} \cup {Str(k) : k \in KeyStrings}
Configs == [sendgrid_api_key : KeyValues]
GoodConfigs == {c \in Configs : c.sendgrid_api_key.t = "string"
                                /\ Len(c.sendgrid_api_key.v) = MinKeyLen}

(***************************************************************************)
(* zyx-schema: new Schema({sendgrid_api_key: stringType(rule)}).validate   *)
(* The library is not part of the repository; it is modelled from the      *)
(* contract of the ConfigValidator: one error per violated rule, in the    *)
(* order required, min, max, and the config passed through as validated.   *)
(* Whether the empty string counts as a missing value is the library's     *)
(* choice (emptyIsMissing).                                                *)
(***************************************************************************)
MsgRequired == "sendgrid_api_key is required"
MsgMin == "sendgrid_api_key is too short"
MsgMax == "sendgrid_api_key is too long"

RuleA == [min |-> MinKeyLen, required |-> TRUE]
RuleB == [min |-> MinKeyLen, max |-> MaxKeyLen, required |-> TRUE]

SchemaValidate(rule, cfg, emptyIsMissing) ==
  LET key == cfg.sendgrid_api_key
      missing == key.t = "undefined" \/ (emptyIsMissing /\ key = Str(""))
      eReq == IF rule.required /\ missing
              THEN <<[message |-> Str(MsgRequired)]>> ELSE <<>>
      eMin == IF key.t = "string" /\ Len(key.v) < rule.min
              THEN <<[message |-> Str(MsgMin)]>> ELSE <<>>
      eMax == IF key.t = "string" /\ "max" \in DOMAIN rule /\ Len(key.v) > rule.max
              THEN <<[message |-> Str(MsgMax)]>> ELSE <<>>
  IN [validated |-> cfg, errors |-> eReq \o eMin \o eMax]

(***************************************************************************)
(* State.                                                                  *)
(***************************************************************************)
Inst == {"i1", "i2"}
SgMail == [t |-> "sgMail"]

\* Cap on the number of send invocations a behaviour makes.
MaxCalls == 3

VARIABLES
  variant,      \* which file's SendGridEmailer the instance is: "A" or "B"
  config,       \* this.config
  connection,   \* this.connection (variant A)
  apiKey,       \* this._apiKey (variant B)
  connected,    \* whether the instance has ever held a connection
  sgKey,        \* the key active on the process-wide vendor client
  sendCalls,    \* send invocations so far
  vendorSends,  \* calls of the vendor client's send so far
  input,        \* the internal message the caller has built
  last          \* the call that completed last, with what it did

vars == <<variant, config, connection, apiKey, connected, sgKey, sendCalls,
          vendorSends, input, last>>

\* The record of a completed call.
\*   arg          the call's argument (a config, a message), or the config read
\*   outcome      "returned" or "raised", with the value returned or raised
\*   activations  the keys passed to sgMail.setApiKey during the call, in order
\*   vendor       the outcomes of the calls of the vendor send during the call
\*   connBefore   this.connection when the call started
\*   wasConnected whether the instance had held a connection before the call
\*   keyBefore    the vendor client's active key when the call started
\*   connAtSend   this.connection when the vendor send was called
\*   keyAtSend    the vendor client's active key when its send was called
\*   after        the caller's message object when the call ended
Call(op, i, arg, outcome, value, activations, vendor, connAtSend, keyAtSend, after) ==
  [op |-> op, inst |-> i, arg |-> arg, outcome |-> outcome, value |-> value,
   activations |-> activations, vendor |-> vendor,
   connBefore |-> connection[i], wasConnected |-> connected[i],
   keyBefore |-> sgKey, connAtSend |-> connAtSend,
   keyAtSend |-> keyAtSend, after |-> after]

NoCall == [op |-> "none", inst |-> "i1", arg |-> Undefined, outcome |-> "returned",
           value |-> Undefined, activations |-> <<>>, vendor |-> <<>>,
           connBefore |-> Undefined, wasConnected |-> FALSE,
           keyBefore |-> Undefined,
           connAtSend |-> Undefined,
           keyAtSend |-> Undefined, after |-> Undefined]

\* After construction.  A variant A instance is given its config by its base
\* class; a variant B instance gets one with initialize (index.js:18-21).
InitWith(cfgs, inputs) ==
  /\ variant \in [Inst -> {"A", "B"}]
  /\ config \in [Inst -> cfgs \cup {Undefined}]
  /\ \A i \in Inst : (variant[i] = "A") = (config[i] # Undefined)
  /\ connection = [i \in Inst |-> Undefined]
  /\ apiKey = [i \in Inst |-> Null]
  /\ connected = [i \in Inst |-> FALSE]
  /\ sgKey = Undefined
  /\ sendCalls = 0
  /\ vendorSends = 0
  /\ input \in inputs
  /\ last = NoCall

(***************************************************************************)
(* The vendor client's activation call, sgMail.setApiKey(key).  It either  *)
(* makes key the active key or throws, having changed nothing.             *)
(***************************************************************************)
SetKeyErrors == {NewError("API key rejected")}
SetKeyOutcomes == {Undefined} \cup SetKeyErrors

(***************************************************************************)
(* Variant A: verifyConfig (part_000:29-39)                                *)
(***************************************************************************)
\* verifyConfig reporting only the first violation.
verifyConfigFirstOnly(i, emptyIsMissing) ==
  /\ variant[i] = "A"
  /\ LET errors == SchemaValidate(RuleA, config[i], emptyIsMissing).errors
     IN last' = IF Len(errors) > 0
                THEN Call("verifyConfig", i, config[i], "raised",
                          NewError("SendGrid config invalid: " \o errors[1].message.v),
                          <<>>, <<>>, Undefined, Undefined, Undefined)
                ELSE Call("verifyConfig", i, config[i], "returned", Undefined,
                          <<>>, <<>>, Undefined, Undefined, Undefined)
  /\ UNCHANGED <<input, variant, config, connection, apiKey, connected, sgKey,
                 sendCalls, vendorSends>>

verifyConfig(i, emptyIsMissing) ==
  /\ variant[i] = "A"
  /\ LET errors == SchemaValidate(RuleA, config[i], emptyIsMissing).errors
         message == Join(Map(errors, LAMBDA e : e.message), ", ")
     IN last' = IF Len(errors) > 0
                THEN Call("verifyConfig", i, config[i], "raised",
                          NewError("SendGrid config invalid: " \o message),
                          <<>>, <<>>, Undefined, Undefined, Undefined)
                ELSE Call("verifyConfig", i, config[i], "returned", Undefined,
                          <<>>, <<>>, Undefined, Undefined, Undefined)
  /\ UNCHANGED <<input, variant, config, connection, apiKey, connected, sgKey,
                 sendCalls, vendorSends>>

(***************************************************************************)
(* Variant A: connect (part_000:48-60), as the named operation op.         *)
(* thrown is what sgMail.setApiKey throws, or Undefined when it returns.   *)
(***************************************************************************)
connectAs(op, i, thrown) ==
  /\ variant[i] = "A"
  /\ LET key == config[i].sendgrid_api_key
     IN IF thrown = Undefined
        THEN /\ sgKey' = key
             /\ connection' = [connection EXCEPT ![i] = SgMail]
             /\ connected' = [connected EXCEPT ![i] = TRUE]
             /\ last' = Call(op, i, config[i], "returned", Undefined, <<key>>, <<>>,
                             Undefined, Undefined, Undefined)
        ELSE /\ last' = Call(op, i, config[i], "raised",
                             NewError("Unable to initialize SendGrid connection: "
                                      \o ToStr(OptGet(thrown, "message"))),
                             <<key>>, <<>>, Undefined, Undefined, Undefined)
             /\ UNCHANGED <<sgKey, connection, connected>>
  /\ UNCHANGED <<input, variant, config, apiKey, sendCalls, vendorSends>>

connect(i, thrown) == connectAs("connect", i, thrown)

\* createTransport (part_000:79-81) awaits this.connect().
createTransport(i, thrown) == connectAs("createTransport", i, thrown)

\* disconnect leaving the connection in place.
disconnectKeeps(i) ==
  /\ variant[i] = "A"
  /\ last' = Call("disconnect", i, Undefined, "returned", Undefined, <<>>, <<>>,
                  Undefined, Undefined, Undefined)
  /\ UNCHANGED <<input, variant, config, connection, apiKey, connected, sgKey,
                 sendCalls, vendorSends>>

\* disconnect revoking the vendor client's key as well.
disconnectRevokes(i) ==
  /\ variant[i] = "A"
  /\ connection' = [connection EXCEPT ![i] = Undefined]
  /\ sgKey' = Undefined
  /\ last' = Call("disconnect", i, Undefined, "returned", Undefined, <<>>, <<>>,
                  Undefined, Undefined, Undefined)
  /\ UNCHANGED <<input, variant, config, apiKey, connected, sendCalls, vendorSends>>

\* disconnect (part_000:68-70)
disconnect(i) ==
  /\ variant[i] = "A"
  /\ connection' = [connection EXCEPT ![i] = Undefined]
  /\ last' = Call("disconnect", i, Undefined, "returned", Undefined, <<>>, <<>>,
                  Undefined, Undefined, Undefined)
  /\ UNCHANGED <<input, variant, config, apiKey, connected, sgKey, sendCalls, vendorSends>>

(***************************************************************************)
(* Variant B: initialize (index.js:28-40).  super.initialize(config) keeps *)
(* the config on the instance.                                             *)
(***************************************************************************)
\* initialize activating this._apiKey before assigning it.
initializeEffectStaleKey(i, cfg, thrown) ==
  LET key == cfg.sendgrid_api_key
  IN IF ~Truthy(key)
     THEN [apiKey |-> apiKey[i], sgKey |-> sgKey, activations |-> <<>>,
           outcome |-> "raised",
           value |-> NewError("Missing sendgrid_api_key in config")]
     ELSE IF thrown = Undefined
     THEN [apiKey |-> key, sgKey |-> apiKey[i], activations |-> <<apiKey[i]>>,
           outcome |-> "returned", value |-> Undefined]
     ELSE [apiKey |-> key, sgKey |-> sgKey, activations |-> <<apiKey[i]>>,
           outcome |-> "raised", value |-> thrown]

initializeEffect(i, cfg, thrown) ==
  LET key == cfg.sendgrid_api_key
  IN IF ~Truthy(key)
     THEN [apiKey |-> apiKey[i], sgKey |-> sgKey, activations |-> <<>>,
           outcome |-> "raised",
           value |-> NewError("Missing sendgrid_api_key in config")]
     ELSE IF thrown = Undefined
     THEN [apiKey |-> key, sgKey |-> key, activations |-> <<key>>,
           outcome |-> "returned", value |-> Undefined]
     ELSE [apiKey |-> key, sgKey |-> sgKey, activations |-> <<key>>,
           outcome |-> "raised", value |-> thrown]

initialize(i, cfg, thrown) ==
  /\ variant[i] = "B"
  /\ LET e == initializeEffect(i, cfg, thrown)
     IN /\ config' = [config EXCEPT ![i] = cfg]
        /\ apiKey' = [apiKey EXCEPT ![i] = e.apiKey]
        /\ sgKey' = e.sgKey
        /\ last' = Call("initialize", i, cfg, e.outcome, e.value, e.activations,
                        <<>>, Undefined, Undefined, Undefined)
  /\ UNCHANGED <<input, variant, connection, connected, sendCalls, vendorSends>>

(***************************************************************************)
(* Variant B: CreateSendGridEmailer (index.js:112-132).  The emailer it    *)
(* constructs takes the place of instance i.                               *)
(***************************************************************************)
CreateSendGridEmailer(i, tenant, emptyIsMissing, thrown) ==
  /\ variant[i] = "B"
  /\ LET v == SchemaValidate(RuleB, tenant, emptyIsMissing)
         message == Join(Map(v.errors, LAMBDA e : e.message), ", ")
     IN IF Len(v.errors) > 0
        THEN /\ last' = Call("CreateSendGridEmailer", i, tenant, "raised",
                             NewError("SendGrid config invalid: " \o message),
                             <<>>, <<>>, Undefined, Undefined, Undefined)
             /\ UNCHANGED <<config, apiKey, sgKey>>
        ELSE LET e == initializeEffect(i, v.validated, thrown)
             IN /\ config' = [config EXCEPT ![i] = v.validated]
                /\ apiKey' = [apiKey EXCEPT ![i] = e.apiKey]
                /\ sgKey' = e.sgKey
                /\ last' = IF e.outcome = "returned"
                           THEN Call("CreateSendGridEmailer", i, tenant, "returned",
                                     [t |-> "SendGridEmailer", inst |-> i],
                                     e.activations, <<>>, Undefined, Undefined, Undefined)
                           ELSE Call("CreateSendGridEmailer", i, tenant, "raised",
                                     NewError("Failed to initialize SendGridEmailer: "
                                              \o ToStr(OptGet(e.value, "message"))),
                                     e.activations, <<>>, Undefined, Undefined, Undefined)
  /\ UNCHANGED <<input, variant, connection, connected, sendCalls, vendorSends>>

(***************************************************************************)
(* Internal messages (variant B).  Objects are records tagged "object";    *)
(* an attachment's path is kept as its "/"-separated segments.             *)
(***************************************************************************)
Obj(fields) == [t |-> "object"] @@ fields

AddrPlain == Obj([email |-> Str("a@x.com")])
AddrNamed == Obj([email |-> Str("b@x.com"), name |-> Str("B")])
AddrEmptyName == Obj([email |-> Str("c@x.com"), name |-> Str("")])

\* The file system: the paths fs.readFileSync can read, with their content.
PathA == <<"", "tmp", "a.txt">>
PathB == <<"", "tmp", "b.pdf">>
PathMissing == <<"", "nope", "gone.txt">>
ReadablePaths == {PathA, PathB}
FileContent(path) == IF path = PathA THEN "alpha" ELSE "beta"

AttNamed == Obj([path |-> PathA, filename |-> Str("report.txt")])
AttUnnamed == Obj([path |-> PathB])
AttMissing == Obj([path |-> PathMissing])

\* Sequences over S of length at most n.
SeqsUpTo(S, n) == UNION {[1..k -> S] : k \in 0..n}

\* fs.readFileSync(path): the content, or the error it throws.
ReadError(path) ==
  [t |-> "Error", code |-> Str("ENOENT"),
   message |-> Str("ENOENT: no such file or directory, open '" \o Join(Map(path, Str), "/") \o "'")]

\* Buffer.toString("base64")
Base64(content) == "base64(" \o content \o ")"

\* formatAddress (index.js:78-79)
formatAddress(a) ==
  IF Truthy(OptGet(a, "name"))
  THEN Obj([email |-> OptGet(a, "email"), name |-> OptGet(a, "name")])
  ELSE Obj([email |-> OptGet(a, "email")])

\* One element of msg.attachments.map (index.js:96-101), for a readable path.
formatAttachment(att) ==
  Obj([content |-> Str(Base64(FileContent(att.path))),
       filename |-> Or(OptGet(att, "filename"), Str(att.path[Len(att.path)])),
       type |-> Str("application/octet-stream"),
       disposition |-> Str("attachment")])

\* Only the first attachment checked.
FirstUnreadableHeadOnly(atts) ==
  IF Len(atts) > 0 /\ atts[1].path \notin ReadablePaths THEN 1 ELSE 0

\* The attachments read before the conversion ends: all of them, or those up to
\* and including the first that cannot be read.
FirstUnreadable(atts) ==
  IF \E k \in 1..Len(atts) : atts[k].path \notin ReadablePaths
  THEN CHOOSE k \in 1..Len(atts) :
         /\ atts[k].path \notin ReadablePaths
         /\ \A j \in 1..(k - 1) : atts[j].path \in ReadablePaths
  ELSE 0

\* An empty list emitted as an empty array.
RecipientsAlwaysArray(list) == Arr(Map(list.v, formatAddress))

\* A cc or bcc list in the personalization (index.js:86-87).
Recipients(list) ==
  IF Len(list.v) > 0 THEN Arr(Map(list.v, formatAddress)) ELSE Undefined

(***************************************************************************)
(* _convertToSendGridFormat (index.js:77-103): the payload it returns, or  *)
(* the error it throws.  An undefined cc, bcc or replyTo is a property     *)
(* whose value is undefined.                                               *)
(***************************************************************************)
_convertToSendGridFormat(msg) ==
  IF IsNullish(msg)
  THEN [ok |-> FALSE, error |-> TypeError, reads |-> 0]
  ELSE LET bad == FirstUnreadable(msg.attachments.v)
       IN IF bad > 0
          THEN [ok |-> FALSE, error |-> ReadError(msg.attachments.v[bad].path),
                reads |-> bad]
          ELSE
   [ok |-> TRUE, reads |-> Len(msg.attachments.v),
    payload |-> Obj([
      from |-> formatAddress(msg.from),
      personalizations |-> Arr(<<Obj([
          to |-> Arr(Map(msg.to.v, formatAddress)),
          cc |-> Recipients(msg.cc),
          bcc |-> Recipients(msg.bcc),
          subject |-> msg.subject])>>),
      replyTo |-> IF Truthy(msg.replyTo) THEN formatAddress(msg.replyTo)
                  ELSE Undefined,
      subject |-> msg.subject,
      text |-> msg.text,
      html |-> msg.html,
      headers |-> msg.headers,
      attachments |-> Arr(Map(msg.attachments.v, formatAttachment))])]

\* The caller's message object once send has run: the conversion reads it and
\* assigns none of its fields (index.js:55, 77-103).
MessageAfterSend(message) == message

(***************************************************************************)
(* The vendor client's send: it resolves with a response or rejects with   *)
(* the value thrown.                                                       *)
(***************************************************************************)
ResponseAccepted == Obj([statusCode |-> Str("202")])
ResponseOk == Obj([statusCode |-> Str("200")])

VendorError(msg, response) == [t |-> "Error", message |-> msg, response |-> response]
ErrBody(errs) == Obj([body |-> Obj([errors |-> Arr(errs)])])
ErrItem(m) == Obj([message |-> Str(m)])

ErrOneDetail == VendorError(Str("Bad Request"), ErrBody(<<ErrItem("bad address")>>))
ErrTwoDetails ==
  VendorError(Str("Bad Request"), ErrBody(<<ErrItem("bad address"), ErrItem("bad subject")>>))
ErrNoDetails == VendorError(Str("Bad Request"), ErrBody(<<>>))
ErrBodyOnly == VendorError(Str("Forbidden"), Obj([body |-> Obj([reason |-> Str("blocked")])]))
ErrPlain == [t |-> "Error", message |-> Str("socket hang up")]
ErrNoMessage == [t |-> "Error", message |-> Str("")]
ErrString == Str("timeout")

VendorErrors == {ErrOneDetail, ErrTwoDetails, ErrNoDetails, ErrBodyOnly, ErrPlain,
                 ErrNoMessage, ErrString, Undefined}
Resolves(r) == [ok |-> TRUE, response |-> r]
Rejects(e) == [ok |-> FALSE, error |-> e]
VendorOutcomes ==
  {Resolves(r) : r \in {ResponseAccepted, ResponseOk}} \cup {Rejects(e) : e \in VendorErrors}

\* A rejected send tried once more.
VendorAttemptsRetry(outcome) ==
  IF outcome.ok THEN <<outcome>> ELSE <<outcome, outcome>>

\* The calls of the vendor send one invocation of send makes once it has a
\* payload: one, whatever its outcome (index.js:56, part_000:100).
VendorAttempts(outcome) == <<outcome>>

(***************************************************************************)
(* Variant B: send (index.js:48-70)                                        *)
(***************************************************************************)
\* The info of the failure result (index.js:67), for a non-nullish error.
FailureInfo(error) ==
  Or(OptGet(OptGet(error, "response"), "body"), Or(OptGet(error, "message"), error))

\* The vendor's response left out of the result.
SuccessResultNoInfo(m, info) == Obj([success |-> TRUE, message |-> m])

\* The result of a successful send (index.js:58-62).
SuccessResult(m, info) == Obj([success |-> TRUE, message |-> m, info |-> info])

\* The error thrown again instead of being turned into a result.
CatchBlockRethrows(m, error) == [outcome |-> "raised", value |-> error]

\* The catch block (index.js:63-69): what it returns, or the TypeError that
\* reading error.response throws when the value caught is undefined or null.
CatchBlock(m, error) ==
  IF IsNullish(error)
  THEN [outcome |-> "raised", value |-> TypeError]
  ELSE [outcome |-> "returned",
        value |-> Obj([success |-> FALSE, message |-> m, info |-> FailureInfo(error)])]

sendB(i, message, showDetails, outcome) ==
  /\ variant[i] = "B"
  /\ sendCalls < MaxCalls
  /\ sendCalls' = sendCalls + 1
  /\ IF IsNullish(message)
     THEN \* message._message throws: at line 51, or at line 55 and again at 66
          /\ last' = Call("send", i, message, "raised", TypeError, <<>>, <<>>,
                          Undefined, Undefined, MessageAfterSend(message))
          /\ UNCHANGED vendorSends
     ELSE LET m == OptGet(message, "_message")
              conv == _convertToSendGridFormat(m)
              calls == VendorAttempts(outcome)
              done == calls[Len(calls)]
              caught == CatchBlock(m, IF conv.ok THEN done.error ELSE conv.error)
          IN IF ~conv.ok
             THEN /\ last' = Call("send", i, message, caught.outcome, caught.value,
                                  <<>>, <<>>, Undefined, Undefined,
                                  MessageAfterSend(message))
                  /\ UNCHANGED vendorSends
             ELSE /\ vendorSends' = vendorSends + Len(calls)
                  /\ last' =
                       IF done.ok
                       THEN Call("send", i, message, "returned",
                                 SuccessResult(m, done.response),
                                 <<>>, calls, Undefined, sgKey, MessageAfterSend(message))
                       ELSE Call("send", i, message, caught.outcome, caught.value,
                                 <<>>, calls, Undefined, sgKey, MessageAfterSend(message))
  /\ UNCHANGED <<input, variant, config, connection, apiKey, connected, sgKey>>

(***************************************************************************)
(* Variant A: send (part_000:92-109).  thrown is what setApiKey throws if  *)
(* the send has to connect; built is what buildMessageObject gives.        *)
(***************************************************************************)
\* Only the first of the vendor's errors reported.
detailsFirstOnly(err) ==
  LET errors == OptGet(OptGet(OptGet(err, "response"), "body"), "errors")
  IN IF IsNullish(errors) THEN Undefined
     ELSE IF errors.v = <<>> THEN Str("")
     ELSE OptGet(errors.v[1], "message")

\* err?.response?.body?.errors?.map(e => e.message).join(", ")
details(err) ==
  LET errors == OptGet(OptGet(OptGet(err, "response"), "body"), "errors")
  IN IF IsNullish(errors) THEN Undefined
     ELSE Str(Join(Map(errors.v, LAMBDA e : OptGet(e, "message")), ", "))

\* The error the catch block throws (part_000:103-107).
SendFailure(err) ==
  IF ~Truthy(details(err)) /\ IsNullish(err)
  THEN TypeError
  ELSE NewError("SendGrid send failed: "
                \o ToStr(Or(details(err), OptGet(err, "message"))))

BuiltMessage == Obj([subject |-> Str("hello")])
BuildError == NewError("template not found")
BuildOutcomes == {[ok |-> TRUE, msg |-> BuiltMessage], [ok |-> FALSE, error |-> BuildError]}

sendA(i, data, thrown, built, outcome) ==
  /\ variant[i] = "A"
  /\ sendCalls < MaxCalls
  /\ sendCalls' = sendCalls + 1
  /\ LET key == config[i].sendgrid_api_key
         connects == ~Truthy(connection[i])
         acts == IF connects THEN <<key>> ELSE <<>>
     IN IF connects /\ thrown # Undefined
        THEN /\ last' = Call("send", i, data, "raised",
                             NewError("Unable to initialize SendGrid connection: "
                                      \o ToStr(OptGet(thrown, "message"))),
                             acts, <<>>, Undefined, Undefined, Undefined)
             /\ UNCHANGED <<sgKey, connection, connected, vendorSends>>
        ELSE /\ sgKey' = IF connects THEN key ELSE sgKey
             /\ connection' = [connection EXCEPT ![i] = SgMail]
             /\ connected' = [connected EXCEPT ![i] = TRUE]
             /\ IF ~built.ok
                THEN /\ last' = Call("send", i, data, "raised", built.error, acts, <<>>,
                                     Undefined, Undefined, Undefined)
                     /\ UNCHANGED vendorSends
                ELSE LET calls == VendorAttempts(outcome)
                         done == calls[Len(calls)]
                     IN /\ vendorSends' = vendorSends + Len(calls)
                        /\ last' =
                             IF done.ok
                             THEN Call("send", i, data, "returned", done.response,
                                       acts, calls, connection'[i], sgKey', Undefined)
                             ELSE Call("send", i, data, "raised",
                                       SendFailure(done.error),
                                       acts, calls, connection'[i], sgKey', Undefined)
  /\ UNCHANGED <<input, variant, config, apiKey>>

(***************************************************************************)
(* Variant B: _convertToSendGridFormat called on the caller's message.     *)
(***************************************************************************)
Convert(i) ==
  /\ variant[i] = "B"
  /\ LET conv == _convertToSendGridFormat(input)
     IN last' = IF conv.ok
                THEN Call("_convertToSendGridFormat", i, input, "returned",
                          conv.payload, <<>>, <<>>, Undefined, Undefined, input)
                ELSE Call("_convertToSendGridFormat", i, input, "raised",
                          conv.error, <<>>, <<>>, Undefined, Undefined, input)
  /\ UNCHANGED <<input, variant, config, connection, apiKey, connected, sgKey,
                 sendCalls, vendorSends>>

(***************************************************************************)
(* Inputs.                                                                 *)
(***************************************************************************)
MaxAddrs == 2
MaxAtts == 2

InternalMessage(from, to, cc, bcc, replyTo, atts) ==
  Obj([from |-> from, to |-> Arr(to), cc |-> Arr(cc), bcc |-> Arr(bcc),
       replyTo |-> replyTo, subject |-> Str("hello"), text |-> Str("body"),
       html |-> Undefined, headers |-> Undefined, attachments |-> Arr(atts)])

\* new EmailMessage(), holding the internal message as _message.
EmailMessage(m) == [t |-> "EmailMessage", _message |-> m]

AddrLists == SeqsUpTo({AddrPlain, AddrNamed}, MaxAddrs)

\* The messages the converter is applied to.
ConvMessages ==
  {InternalMessage(f, to, cc, bcc, r, a) :
     f \in {AddrPlain, AddrNamed, AddrEmptyName},
     to \in AddrLists, cc \in AddrLists, bcc \in AddrLists,
     r \in {Undefined, AddrPlain}, a \in {<<>>, <<AttUnnamed>>}}

\* The arguments send is called with: no message, an object without _message,
\* and messages whose attachments are readable or not, in every position.
SendMessages ==
  {EmailMessage(InternalMessage(AddrNamed, <<AddrPlain>>, <<>>, <<AddrNamed>>,
                                Undefined, a)) :
     a \in SeqsUpTo({AttNamed, AttMissing}, MaxAtts)}
SendArgs == {Undefined, Obj(<<>>)} \cup SendMessages

PlainMessage ==
  EmailMessage(InternalMessage(AddrNamed, <<AddrPlain>>, <<>>, <<>>, Undefined, <<>>))
UnreadableMessage ==
  EmailMessage(InternalMessage(AddrNamed, <<AddrPlain>>, <<>>, <<>>, Undefined,
                               <<AttMissing>>))

AttachedMessage ==
  EmailMessage(InternalMessage(AddrNamed, <<AddrPlain>>, <<>>, <<AddrNamed>>,
                               Undefined, <<AttNamed>>))

KeyOne == [sendgrid_api_key |-> Str(Repeat("a", MinKeyLen))]

(***************************************************************************)
(* The adapter as a whole: every operation of both variants, on valid      *)
(* configs.                                                                *)
(***************************************************************************)
Init == InitWith(GoodConfigs, {Undefined})

Next ==
  \E i \in Inst :
    \/ \E b \in BOOLEAN : verifyConfig(i, b)
    \/ \E x \in SetKeyOutcomes : connect(i, x)
    \/ \E x \in SetKeyOutcomes : createTransport(i, x)
    \/ disconnect(i)
    \/ \E c \in GoodConfigs, x \in SetKeyOutcomes : initialize(i, c, x)
    \/ \E c \in GoodConfigs, x \in SetKeyOutcomes :
         CreateSendGridEmailer(i, c, FALSE, x)
    \/ \E x \in SetKeyOutcomes, b \in BuildOutcomes,
          o \in {Resolves(ResponseAccepted), Rejects(ErrOneDetail)} : sendA(i, Undefined, x, b, o)
    \/ \E m \in {PlainMessage, UnreadableMessage},
          o \in {Resolves(ResponseAccepted), Rejects(ErrOneDetail)} : sendB(i, m, FALSE, o)

Spec == Init /\ [][Next]_vars

(***************************************************************************)
(* Sending: every message argument and every vendor outcome.               *)
(***************************************************************************)
InitSend == InitWith({KeyOne}, {Undefined})

NextSend ==
  \E i \in Inst :
    \/ connect(i, Undefined)
    \/ disconnect(i)
    \/ initialize(i, KeyOne, Undefined)
    \/ \E x \in SetKeyOutcomes, b \in BuildOutcomes, o \in VendorOutcomes :
         sendA(i, Undefined, x, b, o)
    \/ \E m \in SendArgs, d \in BOOLEAN : sendB(i, m, d, Resolves(ResponseAccepted))
    \/ \E o \in VendorOutcomes : sendB(i, AttachedMessage, FALSE, o)

SpecSend == InitSend /\ [][NextSend]_vars

(***************************************************************************)
(* Conversion: the converter applied to each message.                      *)
(***************************************************************************)
InitConv == InitWith({}, ConvMessages)

NextConv == \E i \in Inst : Convert(i)

SpecConv == InitConv /\ [][NextConv]_vars

(***************************************************************************)
(* Configuration: validation and activation over every config.            *)
(***************************************************************************)
InitConfig == InitWith(Configs, {Undefined})

NextConfig ==
  \E i \in Inst :
    \/ \E b \in BOOLEAN : verifyConfig(i, b)
    \/ \E x \in SetKeyOutcomes : connect(i, x)
    \/ \E c \in Configs, x \in SetKeyOutcomes : initialize(i, c, x)
    \/ \E c \in Configs, b \in BOOLEAN, x \in SetKeyOutcomes :
         CreateSendGridEmailer(i, c, b, x)

SpecConfig == InitConfig /\ [][NextConfig]_vars

(***************************************************************************)
(* Claims.                                                                 *)
(***************************************************************************)
KeyOf(cfg) == cfg.sendgrid_api_key
KeyAbsent(cfg) == KeyOf(cfg) = Undefined
KeyTooShort(cfg) == KeyOf(cfg).t = "string" /\ Len(KeyOf(cfg).v) < MinKeyLen
KeyTooLong(cfg) == KeyOf(cfg).t = "string" /\ Len(KeyOf(cfg).v) > MaxKeyLen

\* The entry points that check a config against the schema, and the configs
\* each rejects: only the factory enforces the maximum.
Validating == {"verifyConfig", "CreateSendGridEmailer"}
Rejected(op, cfg) ==
  KeyAbsent(cfg) \/ KeyTooShort(cfg) \/ (op # "verifyConfig" /\ KeyTooLong(cfg))

\* The aggregated messages a rejected config may get: every violated rule's
\* message, joined with ", ".  The empty string violates the minimum, and the
\* required rule as well if the schema library counts it as missing.
Aggregations(op, cfg) ==
  IF KeyAbsent(cfg) THEN {MsgRequired}
  ELSE IF KeyOf(cfg) = Str("") THEN {MsgMin, MsgRequired \o ", " \o MsgMin}
  ELSE IF KeyTooShort(cfg) THEN {MsgMin}
  ELSE IF op # "verifyConfig" /\ KeyTooLong(cfg) THEN {MsgMax}
  ELSE {}

FailsAggregated(op, cfg) ==
  /\ last.outcome = "raised"
  /\ last.value.message.v \in
       {"SendGrid config invalid: " \o a : a \in Aggregations(op, cfg)}
  /\ last.activations = <<>>
  /\ sgKey = last.keyBefore

\* C1 as stated: verifyConfig, initialize and CreateSendGridEmailer each fail on
\* a config whose key is absent, shorter than 10 or longer than 255 (where the
\* maximum is enforced), with the aggregated message, and make no setApiKey
\* call.
C1_AsStated ==
  /\ (last.op \in Validating /\ Rejected(last.op, last.arg))
       => FailsAggregated(last.op, last.arg)
  /\ (last.op = "initialize" /\ Rejected(last.op, last.arg))
       => /\ last.outcome = "raised"
          /\ last.activations = <<>>

\* C1, amended: verifyConfig and CreateSendGridEmailer fail on such a config
\* with "SendGrid config invalid: " followed by the messages of every violated
\* rule joined with ", ", and make no setApiKey call.  initialize called on its
\* own validates no length: it fails, with "Missing sendgrid_api_key in
\* config" and no setApiKey call, only when the key is absent or empty, and
\* passes any other key, too short or too long, to setApiKey.
C1_ValidatingEntryPointsFail ==
  /\ (last.op \in Validating /\ Rejected(last.op, last.arg))
       => FailsAggregated(last.op, last.arg)
  /\ (last.op = "initialize" /\ ~Truthy(KeyOf(last.arg)))
       => /\ last.outcome = "raised"
          /\ last.value = NewError("Missing sendgrid_api_key in config")
          /\ last.activations = <<>>
          /\ sgKey = last.keyBefore
  /\ (last.op = "initialize" /\ Truthy(KeyOf(last.arg)))
       => last.activations = <<KeyOf(last.arg)>>

\* C1's case: a config violating two rules is refused with both messages.
C1_Witness ==
  /\ last.op \in Validating
  /\ KeyOf(last.arg) = Str("")
  /\ last.outcome = "raised"
  /\ last.value.message.v =
       "SendGrid config invalid: sendgrid_api_key is required, sendgrid_api_key is too short"

\* The configs each activating entry point takes as valid.
Accepted(op, cfg) ==
  /\ KeyOf(cfg).t = "string"
  /\ Len(KeyOf(cfg).v) >= MinKeyLen
  /\ op # "connect" => Len(KeyOf(cfg).v) <= MaxKeyLen

\* C5: for every valid config, connect (variant A) and initialize and
\* CreateSendGridEmailer (variant B) pass setApiKey exactly the config's
\* sendgrid_api_key, once; the adapter then holds that key, and it is the
\* vendor client's active key when the call returns.
C5_KeyHandedUnchanged ==
  (last.op \in {"connect", "initialize", "CreateSendGridEmailer"}
     /\ Accepted(last.op, last.arg))
  => /\ last.activations = <<KeyOf(last.arg)>>
     /\ IF variant[last.inst] = "A"
        THEN KeyOf(config[last.inst]) = KeyOf(last.arg)
        ELSE apiKey[last.inst] = KeyOf(last.arg)
     /\ last.outcome = "returned" => sgKey = KeyOf(last.arg)

\* C5's case: the factory has activated a key of the greatest valid length.
C5_Witness ==
  /\ last.op = "CreateSendGridEmailer"
  /\ last.outcome = "returned"
  /\ Len(KeyOf(last.arg).v) = MaxKeyLen
  /\ last.activations = <<KeyOf(last.arg)>>
  /\ sgKey = KeyOf(last.arg)

IsSendB == last.op = "send" /\ variant[last.inst] = "B"
IsSendA == last.op = "send" /\ variant[last.inst] = "A"
Rejected1 == Len(last.vendor) = 1 /\ ~last.vendor[1].ok

\* A value of the shape {success, message, info}.
IsSendResult(v) == v.t = "object" /\ DOMAIN v = {"t", "success", "message", "info"}

\* C2 as stated: variant B's send returns a {success, message, info} result for
\* every message argument and every outcome of the conversion and of the vendor
\* send, and never raises; variant A's send raises every failure of the vendor
\* send.
C2_AsStated ==
  /\ IsSendB => last.outcome = "returned" /\ IsSendResult(last.value)
  /\ (IsSendA /\ Rejected1) => last.outcome = "raised"

\* C2, amended: variant B's send returns a {success, message, info} result
\* whenever its message argument is an object (with or without _message) and
\* the vendor send does not reject with undefined or null; called with no
\* message, or when the vendor rejects with undefined or null, it raises a
\* TypeError.  Variant A's send raises every failure of the vendor send.
C2_SendBReturnsForObjects ==
  /\ (IsSendB /\ ~IsNullish(last.arg)
        /\ ~(Rejected1 /\ IsNullish(last.vendor[1].error)))
       => last.outcome = "returned" /\ IsSendResult(last.value)
  /\ (IsSendB /\ (IsNullish(last.arg)
                    \/ (Rejected1 /\ IsNullish(last.vendor[1].error))))
       => last.outcome = "raised" /\ last.value.t = "TypeError"
  /\ (IsSendA /\ Rejected1) => last.outcome = "raised"

\* C2's case: send given an object without _message returns a failure result.
C2_Witness ==
  /\ IsSendB
  /\ last.arg = Obj(<<>>)
  /\ last.outcome = "returned"
  /\ last.value.success = FALSE
  /\ last.value.message = Undefined

\* The vendor's error list of a rejection, and its messages joined.
ErrorList(e) == OptGet(OptGet(OptGet(e, "response"), "body"), "errors")
HasErrorList(e) == ~IsNullish(ErrorList(e)) /\ ErrorList(e).v # <<>>
JoinedErrors(e) ==
  IF e = ErrOneDetail THEN "bad address"
  ELSE IF e = ErrTwoDetails THEN "bad address, bad subject"
  ELSE ""

\* C3 as stated: when the vendor rejects with a response.body.errors list, variant A
\* raises an error whose message carries the messages joined with ", ", and
\* variant B returns them as the info of its failure result; the generic
\* message is used only when there is no such list.
C3_AsStated ==
  /\ (IsSendA /\ Rejected1 /\ HasErrorList(last.vendor[1].error))
       => last.value.message.v =
            "SendGrid send failed: " \o JoinedErrors(last.vendor[1].error)
  /\ (IsSendB /\ Rejected1 /\ HasErrorList(last.vendor[1].error))
       => last.value.info = Str(JoinedErrors(last.vendor[1].error))

\* C3, amended: when the vendor rejects with response.body.errors, variant A
\* raises "SendGrid send failed: " followed by the messages joined with ", ",
\* and falls back to the error's own message when the list is absent or the
\* joined text is empty; variant B joins nothing: the info of its failure
\* result is the whole response body whenever the error carries one, else the
\* error's message, else the error itself.
C3_DetailsInAOnly ==
  /\ (IsSendA /\ Rejected1 /\ ~IsNullish(last.vendor[1].error))
       => LET e == last.vendor[1].error
          IN last.value.message.v =
               "SendGrid send failed: "
                 \o (IF JoinedErrors(e) # "" THEN JoinedErrors(e)
                     ELSE ToStr(OptGet(e, "message")))
  /\ (IsSendB /\ Rejected1 /\ ~IsNullish(last.vendor[1].error))
       => LET e == last.vendor[1].error
              body == OptGet(OptGet(e, "response"), "body")
          IN last.value.info =
               (IF body # Undefined THEN body
                ELSE IF e \in {ErrNoMessage, ErrString} THEN e
                ELSE e.message)

\* C3's case: the vendor rejects with two errors; variant A reports both.
C3_Witness ==
  /\ IsSendA
  /\ last.vendor = <<Rejects(ErrTwoDetails)>>
  /\ last.outcome = "raised"
  /\ last.value.message.v = "SendGrid send failed: bad address, bad subject"

\* A message argument with an attachment that cannot be read.
HasUnreadable(message) ==
  /\ ~IsNullish(message)
  /\ "_message" \in DOMAIN message
  /\ \E k \in 1..Len(message._message.attachments.v) :
       message._message.attachments.v[k] = AttMissing

\* C4 as stated: for a message with an unreadable attachment, in any position,
\* send fails with the read error, uncaught, and never calls the vendor send.
C4_AsStated ==
  (IsSendB /\ HasUnreadable(last.arg))
  => /\ last.outcome = "raised"
     /\ last.value = ReadError(PathMissing)
     /\ last.vendor = <<>>

\* C4, amended: for a message with an unreadable attachment, in any position,
\* send never calls the vendor send, and the read error is caught by send's own
\* try/catch: send returns {success: false} with the message and, as info, the
\* read error's message.
C4_UnreadableCaughtNoVendorCall ==
  (IsSendB /\ HasUnreadable(last.arg))
  => /\ last.outcome = "returned"
     /\ last.value = Obj([success |-> FALSE, message |-> last.arg._message,
                          info |-> ReadError(PathMissing).message])
     /\ last.vendor = <<>>
     /\ last.keyAtSend = Undefined

\* C4's case: the unreadable attachment comes after a readable one.
C4_Witness ==
  /\ IsSendB
  /\ HasUnreadable(last.arg)
  /\ last.arg._message.attachments.v = <<AttNamed, AttMissing>>
  /\ last.outcome = "returned"
  /\ last.value.success = FALSE
  /\ last.vendor = <<>>

\* C7: when the vendor send resolves with R, variant B's send returns
\* {success: true, message, info} with info = R and message the caller's
\* internal message, and the caller's message object is as it was.
C7_SuccessLeavesMessage ==
  (IsSendB /\ Len(last.vendor) = 1 /\ last.vendor[1].ok)
  => /\ last.outcome = "returned"
     /\ last.value = Obj([success |-> TRUE, message |-> last.arg._message,
                          info |-> last.vendor[1].response])
     /\ last.after = last.arg

\* C7's case: a message with an attachment was sent and the vendor accepted it.
C7_Witness ==
  /\ IsSendB
  /\ last.vendor = <<Resolves(ResponseOk)>>
  /\ last.arg = AttachedMessage
  /\ last.value.success = TRUE
  /\ last.value.info = ResponseOk
  /\ last.after = AttachedMessage

\* An address as the payload carries it: the name kept only if not empty.
PayloadAddress(a) ==
  IF a = AddrNamed THEN [t |-> "object", email |-> Str("b@x.com"), name |-> Str("B")]
  ELSE IF a = AddrPlain THEN [t |-> "object", email |-> Str("a@x.com")]
  ELSE [t |-> "object", email |-> Str("c@x.com")]

\* A payload list is the source list formatted element by element, in order.
MappedInOrder(list, source) ==
  /\ list.t = "array"
  /\ Len(list.v) = Len(source.v)
  /\ \A k \in 1..Len(source.v) : list.v[k] = PayloadAddress(source.v[k])

\* C6: the personalization block has no cc (no bcc) exactly when the message's
\* cc (bcc) list is empty, never an empty list; a non-empty list is carried
\* with the same length and order, each address formatted; to is mapped
\* likewise.
C6_RecipientsOmittedOrMapped ==
  (last.op = "_convertToSendGridFormat" /\ last.outcome = "returned")
  => LET p == last.value.personalizations.v[1]
         m == last.arg
     IN /\ Len(last.value.personalizations.v) = 1
        /\ (p.cc = Undefined) <=> (m.cc.v = <<>>)
        /\ (p.bcc = Undefined) <=> (m.bcc.v = <<>>)
        /\ m.cc.v # <<>> => MappedInOrder(p.cc, m.cc)
        /\ m.bcc.v # <<>> => MappedInOrder(p.bcc, m.bcc)
        /\ MappedInOrder(p.to, m.to)

\* C6's case: a message with two cc addresses and no bcc has been converted.
C6_Witness ==
  /\ last.op = "_convertToSendGridFormat"
  /\ last.outcome = "returned"
  /\ last.arg.cc.v = <<AddrNamed, AddrPlain>>
  /\ last.arg.bcc.v = <<>>
  /\ last.value.personalizations.v[1].bcc = Undefined
  /\ Len(last.value.personalizations.v[1].cc.v) = 2

\* The lifecycle state of a variant A instance.
Lifecycle(i) ==
  IF connection[i] = SgMail THEN "CONNECTED"
  ELSE IF connected[i] THEN "DISCONNECTED"
  ELSE "UNINITIALIZED"

IsA(ops) == last.op \in ops /\ variant[last.inst] = "A"

\* C8: in variant A, connect and createTransport both activate the config's key
\* and set the connection; one whose activation throws raises and leaves the
\* connection as it was; disconnect clears the connection; a send issued while
\* not connected connects first, so the vendor send is called only with the
\* instance CONNECTED, and the instance is CONNECTED after a send that reached
\* the vendor.
C8_Lifecycle ==
  LET i == last.inst
  IN /\ (IsA({"connect", "createTransport"}) /\ last.outcome = "returned")
          => /\ Lifecycle(i) = "CONNECTED"
             /\ last.activations = <<KeyOf(config[i])>>
             /\ sgKey = KeyOf(config[i])
     /\ (IsA({"connect", "createTransport"}) /\ last.outcome = "raised")
          => /\ connection[i] = last.connBefore
             /\ last.value.t = "Error"
     /\ IsA({"disconnect"})
          => /\ connection[i] = Undefined
             /\ Lifecycle(i) = IF last.connBefore = SgMail \/ last.wasConnected
                               THEN "DISCONNECTED" ELSE "UNINITIALIZED"
     /\ (IsA({"send"}) /\ last.connBefore = Undefined)
          => last.activations = <<KeyOf(config[i])>>
     /\ (IsA({"send"}) /\ last.connBefore = SgMail)
          => last.activations = <<>>
     /\ (IsA({"send"}) /\ last.vendor # <<>>)
          => /\ last.connAtSend = SgMail
             /\ Lifecycle(i) = "CONNECTED"
     /\ \A j \in Inst : Lifecycle(j) # "UNINITIALIZED" => variant[j] = "A"

\* C8's case: a send on a DISCONNECTED instance has connected again and reached
\* the vendor.
C8_Witness ==
  /\ IsA({"send"})
  /\ last.wasConnected
  /\ last.connBefore = Undefined
  /\ last.activations = <<KeyOf(config[last.inst])>>
  /\ last.vendor # <<>>
  /\ Lifecycle(last.inst) = "CONNECTED"

\* Whether the last send got as far as the vendor: its message was converted
\* (variant B) or built after connecting (variant A).
ReachedVendor ==
  IF variant[last.inst] = "B"
  THEN last.arg = PlainMessage
  ELSE last.outcome = "returned"
       \/ last.value.message.v \notin
            {BuildError.message.v,
             "Unable to initialize SendGrid connection: API key rejected"}

\* C9: an invocation of send calls the vendor send once if it gets as far as
\* the vendor and not at all otherwise, a rejected send included; the vendor
\* send is called at most as often as send is invoked.
C9_OneVendorCallPerSend ==
  /\ vendorSends <= sendCalls
  /\ last.op = "send" => Len(last.vendor) = (IF ReachedVendor THEN 1 ELSE 0)

\* C9's case: the vendor has rejected a send, which was not tried again.
C9_Witness ==
  /\ last.op = "send"
  /\ last.vendor = <<Rejects(ErrOneDetail)>>
  /\ vendorSends < sendCalls
  /\ sendCalls > 1

\* The key an instance was configured with.
OwnKey(i) == IF variant[i] = "A" THEN KeyOf(config[i]) ELSE apiKey[i]

\* Whether the last call ended with setApiKey throwing.
ActivationRefused ==
  /\ last.outcome = "raised"
  /\ last.value.message.v \in
       {"API key rejected",
        "Unable to initialize SendGrid connection: API key rejected",
        "Failed to initialize SendGridEmailer: API key rejected"}

\* C10: the vendor client's active key is the one activated last, by whichever
\* instance; no call changes it except by activating a key; a send by an
\* initialized or connected instance activates nothing and goes out under
\* whatever key is active; disconnect leaves the active key alone.
C10_SharedKey ==
  /\ sgKey = IF last.activations # <<>> /\ ~ActivationRefused
             THEN last.activations[Len(last.activations)]
             ELSE last.keyBefore
  /\ last.op = "disconnect" => sgKey = last.keyBefore
  /\ (last.op = "send" /\ (variant[last.inst] = "B" \/ last.connBefore = SgMail))
       => /\ last.activations = <<>>
          /\ sgKey = last.keyBefore
          /\ last.vendor # <<>> => last.keyAtSend = last.keyBefore

\* C10's case: a send went out under the other instance's key.
C10_Witness ==
  /\ last.op = "send"
  /\ last.vendor # <<>>
  /\ OwnKey(last.inst).t = "string"
  /\ last.keyAtSend.t = "string"
  /\ last.keyAtSend # OwnKey(last.inst)
  /\ \E j \in Inst \ {last.inst} : last.keyAtSend = OwnKey(j)

====
